---- MODULE Spec2Model ----
(***************************************************************************)
(* Terminal snake game (src/src/snake/main.py).                            *)
(*                                                                         *)
(* The specifications share the variables below:                           *)
(*   Spec     the program: main() with its tick loop, one action per step  *)
(*            of the loop body;                                            *)
(*   SpecAPI  the Snake class driven by an arbitrary caller, one action    *)
(*            per method call;                                             *)
(*   SpecInput the key poll of main reading a terminal somebody types on;  *)
(*   SpecSquash Point2D.squash applied to any point and any bounds.        *)
(* Points are records [x, y]; a body is a sequence, head at index 1        *)
(* (Python index 0).                                                       *)
(***************************************************************************)
EXTENDS Integers, Sequences, FiniteSets, TLC

VARIABLES
    pc,          \* position in main(), or "api" in SpecAPI
    x_bounds,    \* X_BOUNDS of main (scaled down, fixed during a run)
    y_bounds,    \* Y_BOUNDS of main
    coords,      \* snake.coords
    direction,   \* snake.direction, the name of a Direction member
    apple,       \* apple of main
    score,       \* score of main
    is_running,  \* is_running of main
    cbreak,      \* TRUE while the terminal is in cbreak mode
    old_settings,\* listener.old_settings: the value of cbreak saved by __enter__
    exits,       \* history: number of KeyListener.__exit__ calls
    last_dir,    \* history: the direction the last grow() used
    tty_in,      \* SpecInput: characters typed and not yet read from the terminal
    stdin_buf,   \* SpecInput: characters read ahead into sys.stdin's buffer
    stdout,      \* the last message line printed (not the frames)
    tick_head,   \* history: snake.coords[0] at this tick's render
    tick_len,    \* history: len(snake.coords) at this tick's render
    tick_score,  \* history: score at this tick's render
    ate,         \* history: this tick's eat check succeeded
    op,          \* SpecAPI: name of the last call
    key,         \* SpecAPI: argument of the last move call
    ret          \* SpecAPI: value returned by the last call

vars == <<pc, x_bounds, y_bounds, coords, direction, apple, score, is_running,
          cbreak, old_settings, exits, last_dir, tty_in, stdin_buf, stdout,
          tick_head, tick_len, tick_score, ate, op, key, ret>>

gameVars == <<pc, score, is_running, cbreak, old_settings, exits, last_dir, stdout,
              tick_head, tick_len, tick_score, ate>>

inputVars == <<tty_in, stdin_buf>>

apiVars == <<op, key, ret>>

(***************************************************************************)
(* Bounds of the model.                                                    *)
(***************************************************************************)
\* Boards are 2..MaxDim cells wide and tall (the program's is 30 x 20).
MaxDim == 3

\* The longest body the model follows; a step that would exceed it is not taken.
MaxLen == 5

\* The longest body a caller of the Snake class builds in SpecAPI.
MaxApiLen == 2

\* The most characters waiting to be read in SpecInput.
MaxQueue == 2

\* Point2D.squash is applied to coordinates in -MaxCoord..MaxCoord in SpecSquash.
MaxCoord == 7

Boards == (2..MaxDim) \X (2..MaxDim)

(***************************************************************************)
(* Point2D                                                                 *)
(***************************************************************************)
Point2D(x_coord, y_coord) == [x |-> x_coord, y |-> y_coord]

Point2D_add(self, other) == Point2D(self.x + other.x, self.y + other.y)

Point2D_eq(self, other) == self.x = other.x /\ self.y = other.y

Point2D_neg(self) == Point2D(-self.x, -self.y)

\* squash with the remainder of a truncating division (sign of the dividend)
squash_truncating(self, xb, yb) ==
    Point2D(IF self.x >= 0 THEN self.x % xb ELSE -((-self.x) % xb),
            IF self.y >= 0 THEN self.y % yb ELSE -((-self.y) % yb))

\* Python's % with a positive modulus is the non-negative remainder, as TLA+'s.
squash(self, xb, yb) == Point2D(self.x % xb, self.y % yb)

(***************************************************************************)
(* Direction                                                               *)
(***************************************************************************)
Direction ==
    [UP |-> Point2D(0, -1), DOWN |-> Point2D(0, 1),
     RIGHT |-> Point2D(1, 0), LEFT |-> Point2D(-1, 0)]

(***************************************************************************)
(* Keys: the single characters stdin.read(1) can return.                   *)
(***************************************************************************)
None == "None"

Keys == {"w", "a", "s", "d", "q", "W", "A", "S", "D", "Q", " ", "\n", "x", "E"}

\* the strings a caller passes to Snake.move: the keys, and keys with blanks around
MoveArgs == Keys \cup {" q", "W "}

\* str.strip() of the strings above
strip(c) ==
    CASE c \in {" ", "\n", "\t"} -> ""
      [] c = " q" -> "q"
      [] c = "W " -> "W"
      [] OTHER -> c

\* str.lower without the upper-case letters
lower_identity(c) == c

\* str.lower() of a string of at most one character
lower(c) ==
    CASE c = "W" -> "w" [] c = "A" -> "a" [] c = "S" -> "s" [] c = "D" -> "d"
      [] c = "Q" -> "q" [] c = "E" -> "e" [] OTHER -> c

(***************************************************************************)
(* Snake                                                                   *)
(***************************************************************************)
char_to_direction == [w |-> "UP", a |-> "LEFT", s |-> "DOWN", d |-> "RIGHT"]

\* move without the reversal test
move_always_turns(dir, k) ==
    LET character == lower(strip(k))
    IN  [direction |-> IF character \in DOMAIN char_to_direction
                       THEN char_to_direction[character]
                       ELSE dir,
         ret |-> (character # "q")]

\* Snake.move(key): the new direction and the returned flag
move(dir, k) ==
    LET character == lower(strip(k))
        turned ==
            IF character \in DOMAIN char_to_direction
            THEN IF ~Point2D_eq(Direction[dir],
                                Point2D_neg(Direction[char_to_direction[character]]))
                 THEN char_to_direction[character]
                 ELSE dir
            ELSE dir
    IN  [direction |-> turned, ret |-> (character # "q")]

\* grow adding the new segment at the tail end
grow_at_tail(cs, dir) == cs \o <<Point2D_add(cs[1], Direction[dir])>>

\* Snake.grow(): the new coords
grow(cs, dir) == <<Point2D_add(cs[1], Direction[dir])>> \o cs

\* update without the tail removal
update_no_pop(cs, dir, xb, yb) ==
    grow([i \in DOMAIN cs |-> squash(cs[i], xb, yb)], dir)

\* Snake.update(x_bounds, y_bounds): the new coords
update(cs, dir, xb, yb) ==
    LET squashed == [i \in DOMAIN cs |-> squash(cs[i], xb, yb)]
        grown == grow(squashed, dir)
    IN  SubSeq(grown, 1, Len(grown) - 1)

\* is_dead searching coords[0:] instead of coords[1:]
is_dead_from_head(cs) == \E i \in 1..Len(cs) : Point2D_eq(cs[1], cs[i])

\* Snake.is_dead()
is_dead(cs) == \E i \in 2..Len(cs) : Point2D_eq(cs[1], cs[i])

(***************************************************************************)
(* new_apple_location                                                      *)
(***************************************************************************)
occupied(cs) == {cs[i] : i \in DOMAIN cs}

\* free without the occupancy filter
free_unfiltered(xb, yb, cs) ==
    {Point2D(x, y) : x \in 0..(xb - 1), y \in 0..(yb - 1)}

\* the cells of the list free; random.choice(free) returns any of them
free(xb, yb, cs) ==
    {p \in {Point2D(x, y) : x \in 0..(xb - 1), y \in 0..(yb - 1)} :
        p \notin occupied(cs)}

(***************************************************************************)
(* plot: the cell contents of the frame (colours and border left out)      *)
(***************************************************************************)
plot(xb, yb, cs, a) ==
    [y \in 0..(yb - 1) |-> [x \in 0..(xb - 1) |->
        IF \E i \in DOMAIN cs :
              /\ 0 <= cs[i].x /\ cs[i].x < xb /\ 0 <= cs[i].y /\ cs[i].y < yb
              /\ cs[i].x = x /\ cs[i].y = y
        THEN "S"
        ELSE IF a.x = x /\ a.y = y THEN "A" ELSE " "]]

(***************************************************************************)
(* main                                                                    *)
(***************************************************************************)
\* main, lines 143-149: the state when the with statement is reached
Init ==
    /\ \E b \in Boards : x_bounds = b[1] /\ y_bounds = b[2]
    /\ coords = <<Point2D(x_bounds \div 2, y_bounds \div 2)>>
    /\ direction = "DOWN"
    /\ apple \in free(x_bounds, y_bounds, coords)
    /\ is_running = TRUE
    /\ score = 0
    /\ pc = "with"
    /\ cbreak = FALSE
    /\ old_settings = None
    /\ exits = 0
    /\ last_dir = None
    /\ tty_in = <<>>
    /\ stdin_buf = <<>>
    /\ stdout = <<>>
    /\ tick_head = coords[1]
    /\ tick_len = 1
    /\ tick_score = 0
    /\ ate = FALSE
    /\ op = None /\ key = None /\ ret = None

\* KeyListener.__enter__
Enter ==
    /\ pc = "with"
    /\ old_settings' = cbreak
    /\ cbreak' = TRUE
    /\ pc' = "while"
    /\ UNCHANGED <<x_bounds, y_bounds, coords, direction, apple, score, is_running,
                   stdout, tick_head, tick_len, tick_score, ate>>
    /\ UNCHANGED apiVars
    /\ UNCHANGED <<exits, last_dir>>
    /\ UNCHANGED inputVars

\* while is_running: print(plot(...))
Render ==
    /\ pc = "while"
    /\ is_running
    /\ tick_head' = coords[1]
    /\ tick_len' = Len(coords)
    /\ tick_score' = score
    /\ ate' = FALSE
    /\ pc' = "is_dead"
    /\ UNCHANGED <<x_bounds, y_bounds, coords, direction, apple, score, is_running,
                   cbreak, stdout>>
    /\ UNCHANGED apiVars
    /\ UNCHANGED <<old_settings, exits, last_dir>>
    /\ UNCHANGED inputVars

\* while is_running: the test fails after a quit key
LoopEnd ==
    /\ pc = "while"
    /\ ~is_running
    /\ pc' = "exit_normal"
    /\ UNCHANGED <<x_bounds, y_bounds, coords, direction, apple, score, is_running,
                   cbreak, stdout, tick_head, tick_len, tick_score, ate>>
    /\ UNCHANGED apiVars
    /\ UNCHANGED <<old_settings, exits, last_dir>>
    /\ UNCHANGED inputVars

\* a tick that goes on to the eat step without testing is_dead
DeathCheck_skipped ==
    /\ pc = "is_dead"
    /\ pc' = "eat"
    /\ UNCHANGED <<x_bounds, y_bounds, coords, direction, apple, score, is_running,
                   cbreak, stdout, tick_head, tick_len, tick_score, ate>>
    /\ UNCHANGED apiVars
    /\ UNCHANGED <<old_settings, exits, last_dir>>
    /\ UNCHANGED inputVars

\* if snake.is_dead(): break
DeathCheck ==
    /\ pc = "is_dead"
    /\ pc' = IF is_dead(coords) THEN "exit_normal" ELSE "eat"
    /\ UNCHANGED <<x_bounds, y_bounds, coords, direction, apple, score, is_running,
                   cbreak, stdout, tick_head, tick_len, tick_score, ate>>
    /\ UNCHANGED apiVars
    /\ UNCHANGED <<old_settings, exits, last_dir>>
    /\ UNCHANGED inputVars

\* if snake.coords[0] == apple: score += 1; snake.grow(); apple = new_apple_location(...)
EatCheck ==
    /\ pc = "eat"
    /\ IF Point2D_eq(coords[1], apple)
       THEN /\ Len(coords) < MaxLen
            /\ score' = score + 1
            /\ coords' = grow(coords, direction)
            /\ last_dir' = direction
            /\ ate' = TRUE
            /\ IF free(x_bounds, y_bounds, coords') = {}
               THEN /\ stdout' = <<"You won! No more space left.">>
                    /\ pc' = "exit_SystemExit"
                    /\ UNCHANGED apple
               ELSE /\ apple' \in free(x_bounds, y_bounds, coords')
                    /\ pc' = "get_key"
                    /\ UNCHANGED stdout
       ELSE /\ pc' = "get_key"
            /\ UNCHANGED <<score, coords, apple, ate, stdout, last_dir>>
    /\ UNCHANGED <<x_bounds, y_bounds, direction, is_running, cbreak,
                   tick_head, tick_len, tick_score>>
    /\ UNCHANGED apiVars
    /\ UNCHANGED <<old_settings, exits>>
    /\ UNCHANGED inputVars

\* a poll whose quit key leaves the loop at once, as a break would
PollKey_quit_breaks ==
    /\ pc = "get_key"
    /\ \E k \in Keys \cup {None, ""} :
          IF k # None /\ k # ""
          THEN /\ direction' = move(direction, k).direction
               /\ is_running' = move(direction, k).ret
          ELSE UNCHANGED <<direction, is_running>>
    /\ pc' = IF is_running' THEN "update" ELSE "exit_normal"
    /\ UNCHANGED <<x_bounds, y_bounds, coords, apple, score, cbreak, stdout,
                   tick_head, tick_len, tick_score, ate>>
    /\ UNCHANGED apiVars
    /\ UNCHANGED <<old_settings, exits, last_dir>>
    /\ UNCHANGED inputVars

\* key = listener.get_key(); if key: is_running = snake.move(key)
\* (None: nothing to read; "": end of input)
PollKey ==
    /\ pc = "get_key"
    /\ \E k \in Keys \cup {None, ""} :
          IF k # None /\ k # ""
          THEN /\ direction' = move(direction, k).direction
               /\ is_running' = move(direction, k).ret
          ELSE UNCHANGED <<direction, is_running>>
    /\ pc' = "update"
    /\ UNCHANGED <<x_bounds, y_bounds, coords, apple, score, cbreak, stdout,
                   tick_head, tick_len, tick_score, ate>>
    /\ UNCHANGED apiVars
    /\ UNCHANGED <<old_settings, exits, last_dir>>
    /\ UNCHANGED inputVars

\* snake.update(X_BOUNDS, Y_BOUNDS); time.sleep(delay)
Update ==
    /\ pc = "update"
    /\ coords' = update(coords, direction, x_bounds, y_bounds)
    /\ last_dir' = direction
    /\ pc' = "while"
    /\ UNCHANGED <<x_bounds, y_bounds, direction, apple, score, is_running, cbreak,
                   stdout, tick_head, tick_len, tick_score, ate>>
    /\ UNCHANGED apiVars
    /\ UNCHANGED <<old_settings, exits>>
    /\ UNCHANGED inputVars

\* an unexpected exception in the loop body: KeyboardInterrupt (Ctrl-C, which
\* cbreak mode leaves enabled) raised in time.sleep(delay)
Interrupt ==
    /\ pc = "while"
    /\ pc' = "exit_KeyboardInterrupt"
    /\ UNCHANGED <<x_bounds, y_bounds, coords, direction, apple, score, is_running,
                   cbreak, stdout, tick_head, tick_len, tick_score, ate>>
    /\ UNCHANGED apiVars
    /\ UNCHANGED <<old_settings, exits, last_dir>>
    /\ UNCHANGED inputVars

\* a release that runs on normal return only: an exit by exception skips it
Exit_on_return_only ==
    /\ pc \in {"exit_normal", "exit_SystemExit", "exit_KeyboardInterrupt"}
    /\ cbreak' = IF pc = "exit_normal" THEN old_settings ELSE cbreak
    /\ exits' = IF pc = "exit_normal" THEN exits + 1 ELSE exits
    /\ pc' = IF pc = "exit_normal" THEN "game_over" ELSE "exited"
    /\ UNCHANGED <<x_bounds, y_bounds, coords, direction, apple, score, is_running,
                   stdout, tick_head, tick_len, tick_score, ate>>
    /\ UNCHANGED apiVars
    /\ UNCHANGED <<old_settings, last_dir>>
    /\ UNCHANGED inputVars

\* KeyListener.__exit__, on leaving the with block normally or by an exception
Exit ==
    /\ pc \in {"exit_normal", "exit_SystemExit", "exit_KeyboardInterrupt"}
    /\ cbreak' = old_settings
    /\ exits' = exits + 1
    /\ pc' = IF pc = "exit_normal" THEN "game_over" ELSE "exited"
    /\ UNCHANGED <<x_bounds, y_bounds, coords, direction, apple, score, is_running,
                   stdout, tick_head, tick_len, tick_score, ate>>
    /\ UNCHANGED apiVars
    /\ UNCHANGED <<old_settings, last_dir>>
    /\ UNCHANGED inputVars

\* print(GAME OVER - SCORE: score)
GameOver ==
    /\ pc = "game_over"
    /\ stdout' = <<"GAME OVER", score>>
    /\ pc' = "exited"
    /\ UNCHANGED <<x_bounds, y_bounds, coords, direction, apple, score, is_running,
                   cbreak, tick_head, tick_len, tick_score, ate>>
    /\ UNCHANGED apiVars
    /\ UNCHANGED <<old_settings, exits, last_dir>>
    /\ UNCHANGED inputVars

Next ==
    \/ Enter
    \/ Render
    \/ LoopEnd
    \/ DeathCheck
    \/ EatCheck
    \/ PollKey
    \/ Update
    \/ Interrupt
    \/ Exit
    \/ GameOver

Spec == Init /\ [][Next]_vars

(***************************************************************************)
(* The Snake class under an arbitrary caller                               *)
(***************************************************************************)
\* Snake(x_coord, y_coord, direction) on some board, before any call
InitAPI ==
    /\ \E b \in Boards : x_bounds = b[1] /\ y_bounds = b[2]
    /\ \E x \in 0..(x_bounds - 1), y \in 0..(y_bounds - 1) :
          coords = <<Point2D(x, y)>>
    /\ direction \in DOMAIN Direction
    /\ apple = None
    /\ pc = "api"
    /\ is_running = TRUE
    /\ score = 0
    /\ cbreak = FALSE
    /\ old_settings = None
    /\ exits = 0
    /\ last_dir = None
    /\ tty_in = <<>>
    /\ stdin_buf = <<>>
    /\ stdout = <<>>
    /\ tick_head = coords[1]
    /\ tick_len = 1
    /\ tick_score = 0
    /\ ate = FALSE
    /\ op = None /\ key = None /\ ret = None

\* snake.move(k)
CallMove ==
    /\ pc = "api"
    /\ \E k \in MoveArgs :
          /\ direction' = move(direction, k).direction
          /\ ret' = move(direction, k).ret
          /\ key' = k
    /\ op' = "move"
    /\ UNCHANGED <<x_bounds, y_bounds, coords, apple>>
    /\ UNCHANGED gameVars
    /\ UNCHANGED inputVars

\* snake.grow()
CallGrow ==
    /\ pc = "api"
    /\ Len(coords) < MaxApiLen
    /\ coords' = grow(coords, direction)
    /\ op' = "grow"
    /\ key' = None
    /\ ret' = None
    /\ UNCHANGED <<x_bounds, y_bounds, direction, apple>>
    /\ UNCHANGED gameVars
    /\ UNCHANGED inputVars

\* snake.update(x_bounds, y_bounds)
CallUpdate ==
    /\ pc = "api"
    /\ coords' = update(coords, direction, x_bounds, y_bounds)
    /\ op' = "update"
    /\ key' = None
    /\ ret' = None
    /\ UNCHANGED <<x_bounds, y_bounds, direction, apple>>
    /\ UNCHANGED gameVars
    /\ UNCHANGED inputVars

NextAPI ==
    \/ CallMove
    \/ CallGrow
    \/ CallUpdate

SpecAPI == InitAPI /\ [][NextAPI]_vars

(***************************************************************************)
(* KeyListener.get_key and the key poll of main (specification SpecInput)  *)
(*                                                                         *)
(* select() looks at the terminal's file descriptor; sys.stdin is a        *)
(* buffered text stream, so read(1) takes a character already in its       *)
(* buffer, and otherwise reads everything the terminal holds into the      *)
(* buffer and takes the first.  PollKey of Spec lets get_key return any    *)
(* key; here the keys come from what was typed.                            *)
(***************************************************************************)
\* the keys typed in SpecInput
TypedKeys == {"w", "a", "d", "q", "x"}

\* KeyListener.get_key(): the returned key and what is left waiting
get_key(tin, buf) ==
    IF tin # <<>>
    THEN IF buf # <<>>
         THEN [key |-> Head(buf), tty_in |-> tin, stdin_buf |-> Tail(buf)]
         ELSE [key |-> Head(tin), tty_in |-> <<>>, stdin_buf |-> Tail(tin)]
    ELSE [key |-> None, tty_in |-> tin, stdin_buf |-> buf]

\* main up to the first key poll, nothing typed yet
InitInput ==
    /\ \E b \in Boards : x_bounds = b[1] /\ y_bounds = b[2]
    /\ coords = <<Point2D(x_bounds \div 2, y_bounds \div 2)>>
    /\ direction = "DOWN"
    /\ apple \in free(x_bounds, y_bounds, coords)
    /\ pc = "get_key"
    /\ is_running = TRUE
    /\ score = 0
    /\ cbreak = TRUE
    /\ old_settings = FALSE
    /\ exits = 0
    /\ last_dir = None
    /\ tty_in = <<>>
    /\ stdin_buf = <<>>
    /\ stdout = <<>>
    /\ tick_head = coords[1]
    /\ tick_len = 1
    /\ tick_score = 0
    /\ ate = FALSE
    /\ op = None /\ key = None /\ ret = None

\* the player presses a key
KeyPress ==
    /\ Len(tty_in) + Len(stdin_buf) < MaxQueue
    /\ \E k \in TypedKeys : tty_in' = Append(tty_in, k)
    /\ UNCHANGED <<x_bounds, y_bounds, coords, direction, apple, stdin_buf>>
    /\ UNCHANGED gameVars
    /\ UNCHANGED apiVars

\* key = listener.get_key(); if key: is_running = snake.move(key)
\* (the poll of each tick while the loop runs; the rest of the tick is left out)
PollStdin ==
    /\ pc = "get_key"
    /\ is_running
    /\ LET r == get_key(tty_in, stdin_buf)
       IN  /\ tty_in' = r.tty_in
           /\ stdin_buf' = r.stdin_buf
           /\ key' = r.key
           /\ IF r.key # None /\ r.key # ""
              THEN /\ direction' = move(direction, r.key).direction
                   /\ is_running' = move(direction, r.key).ret
                   /\ ret' = is_running'
              ELSE /\ UNCHANGED <<direction, is_running>>
                   /\ ret' = None
    /\ op' = "get_key"
    /\ UNCHANGED <<x_bounds, y_bounds, coords, apple, pc, score, cbreak,
                   old_settings, exits, last_dir, stdout, tick_head, tick_len,
                   tick_score, ate>>

NextInput ==
    \/ KeyPress
    \/ PollStdin

SpecInput == InitInput /\ [][NextInput]_vars

(***************************************************************************)
(* Point2D.squash on its own (specification SpecSquash)                    *)
(***************************************************************************)
\* Point2D(x, y) for any small integers, and any bounds > 0
InitSquash ==
    /\ x_bounds \in 1..MaxDim
    /\ y_bounds \in 1..MaxDim
    /\ \E x \in (-MaxCoord)..MaxCoord, y \in (-MaxCoord)..MaxCoord :
          coords = <<Point2D(x, y)>>
    /\ direction = "DOWN"
    /\ apple = None
    /\ pc = "api"
    /\ is_running = TRUE
    /\ score = 0
    /\ cbreak = FALSE
    /\ old_settings = None
    /\ exits = 0
    /\ last_dir = None
    /\ tty_in = <<>>
    /\ stdin_buf = <<>>
    /\ stdout = <<>>
    /\ tick_head = coords[1]
    /\ tick_len = 1
    /\ tick_score = 0
    /\ ate = FALSE
    /\ op = None /\ key = None /\ ret = None

\* point.squash(x_bounds, y_bounds)
CallSquash ==
    /\ pc = "api"
    /\ ret' = squash(coords[1], x_bounds, y_bounds)
    /\ op' = "squash"
    /\ UNCHANGED <<x_bounds, y_bounds, coords, direction, apple, key>>
    /\ UNCHANGED gameVars
    /\ UNCHANGED inputVars

\* the result squashed again
CallSquashAgain ==
    /\ pc = "api"
    /\ op \in {"squash", "squash_again"}
    /\ coords' = <<ret>>
    /\ ret' = squash(ret, x_bounds, y_bounds)
    /\ op' = "squash_again"
    /\ UNCHANGED <<x_bounds, y_bounds, direction, apple, key>>
    /\ UNCHANGED gameVars
    /\ UNCHANGED inputVars

NextSquash ==
    \/ CallSquash
    \/ CallSquashAgain

SpecSquash == InitSquash /\ [][NextSquash]_vars

(***************************************************************************)
(* Properties of the game loop (specification Spec)                        *)
(***************************************************************************)
InBoard(p) == 0 <= p.x /\ p.x < x_bounds /\ 0 <= p.y /\ p.y < y_bounds

\* the board cell a coordinate is drawn on once wrapped
Cell(p) == Point2D(p.x % x_bounds, p.y % y_bounds)

\* C1: at every render and at every death/eat check, every coordinate of
\* snake.coords, the head included, lies inside the board.
C1_AllSegmentsInBoard ==
    pc \in {"is_dead", "eat"} => \A i \in DOMAIN coords : InBoard(coords[i])

\* C2: in a tick where the snake is not dead and the head's board cell is the
\* apple cell at the eat check, the apple is eaten: score goes up by one.
C2_AppleCellEaten ==
    [][(pc = "eat" /\ Cell(coords[1]) = apple) => score' = score + 1]_vars

\* C3: whenever the death check lets the loop continue, no two segments of
\* snake.coords occupy the same board cell.
C3_NoOverlapWhenAlive ==
    pc = "eat" =>
        \A i, j \in DOMAIN coords : i # j => Cell(coords[i]) # Cell(coords[j])

\* C4: every point new_apple_location returns (the initial placement and every
\* placement made from the loop) is inside the board and is no member of
\* snake.coords at the time of the call.
C4_AppleInBoardAndFree ==
    (pc = "with" \/ (pc = "get_key" /\ ate)) =>
        /\ InBoard(apple)
        /\ \A i \in DOMAIN coords : coords[i] # apple

C4_Witness ==
    /\ pc = "get_key" /\ ate /\ score >= 2
    /\ ~InBoard(coords[1])

\* C5: whenever new_apple_location is called with an occupied set of
\* x_bounds * y_bounds members it exits with the win message, it returns no point.
C5_FullOccupiedWins ==
    (pc = "get_key" /\ ate) =>
        Cardinality({coords[i] : i \in DOMAIN coords}) # x_bounds * y_bounds

\* C6: in a tick whose eat check succeeds, right after the eat step score is one
\* higher and the body one longer than at the start of the tick, the new apple is
\* on no cell of snake.coords, and after update the body is still one longer.
C6_EatStep ==
    /\ (ate /\ pc \in {"get_key", "exit_SystemExit"}) =>
            /\ score = tick_score + 1
            /\ Len(coords) = tick_len + 1
    /\ (ate /\ pc = "get_key") => \A i \in DOMAIN coords : coords[i] # apple
    /\ (ate /\ pc = "while") => Len(coords) = tick_len + 1

C6_Witness == ate /\ pc = "while" /\ Len(coords) = 3 /\ tick_len = 2

\* C10: in every tick that runs to completion, the head's board cell at the next
\* render is one cardinal step, wrapped, from its board cell at this render, in
\* the direction in force after the key poll.
C10_OneCellPerTick ==
    [][(pc = "update" /\ is_running) =>
          Cell(coords'[1]) = Cell(Point2D_add(tick_head, Direction[direction]))]_vars

\* C8: one update() leaves the length of a non-empty body unchanged (the wrapped
\* head plus the direction is prepended, the tail removed, the other segments
\* keep their order); a grow() followed by an update() makes the body one longer;
\* the body is never empty.
C8_GrowthShrinkBalance ==
    /\ [](Len(coords) >= 1)
    /\ [][pc = "update" =>
            /\ Len(coords') = Len(coords)
            /\ coords'[1] = Point2D_add(Cell(coords[1]), Direction[direction])
            /\ \A i \in 1..(Len(coords) - 1) : coords'[i + 1] = Cell(coords[i])
            /\ (ate => Len(coords') = tick_len + 1)]_vars

C8_Witness ==
    /\ pc = "while" /\ ~ate /\ tick_head # coords[1]
    /\ Len(coords) = 4 /\ tick_len = 4

\* C9: is_dead() returns true if and only if coords[0] equals, in both
\* components, some coordinate of coords[1:]; so it returns false for a body of
\* distinct coordinates and for a body of length 1.
C9_IsDeadIffHeadRepeats ==
    [][pc = "is_dead" =>
          ((pc' = "exit_normal") <=>
              \E i \in 2..Len(coords) :
                  coords[i].x = coords[1].x /\ coords[i].y = coords[1].y)]_vars

C9_Witness ==
    /\ pc = "exit_normal" /\ is_running
    /\ \E i \in 2..Len(coords) : coords[i] = coords[1]

\* the positions of main inside the loop body
LoopPcs == {"while", "is_dead", "eat", "get_key", "update"}

\* C11: the terminal is put in cbreak mode once, before the first iteration, and
\* on every way out of the loop (death, quit, the win exit, an exception)
\* __exit__ restores the saved settings exactly once, so the program never ends
\* with the terminal in cbreak mode.
C11_TerminalRestored ==
    /\ pc = "with" => (~cbreak /\ exits = 0)
    /\ pc \in LoopPcs => (cbreak /\ exits = 0 /\ old_settings = FALSE)
    /\ pc \in {"exit_normal", "exit_SystemExit", "exit_KeyboardInterrupt"} =>
           (cbreak /\ exits = 0)
    /\ pc \in {"game_over", "exited"} => (~cbreak /\ exits = 1)

C11_Witness ==
    pc = "exited" /\ exits = 1 /\ stdout = <<"You won! No more space left.">>

(***************************************************************************)
(* Properties of the Snake class (specification SpecAPI)                   *)
(***************************************************************************)
\* the direction each movement key asks for
KeyDirection ==
    [w |-> "UP", a |-> "LEFT", s |-> "DOWN", d |-> "RIGHT",
     W |-> "UP", A |-> "LEFT", S |-> "DOWN", D |-> "RIGHT"]

Opposite == [UP |-> "DOWN", DOWN |-> "UP", LEFT |-> "RIGHT", RIGHT |-> "LEFT"]

\* C7: move(key) with a movement key leaves the direction D alone when the
\* key's direction is the reverse of D, and otherwise sets it to the key's.
C7_ReversalRejection ==
    [][(op' = "move" /\ key' \in DOMAIN KeyDirection) =>
          direction' = IF KeyDirection[key'] = Opposite[direction]
                       THEN direction
                       ELSE KeyDirection[key']]_vars

C7_Witness == op = "move" /\ key = "w" /\ direction = "DOWN"

\* what each argument of move is once trimmed and lower-cased
Normalized(k) ==
    CASE k \in {"w", "W", "W "} -> "w"
      [] k \in {"a", "A"} -> "a"
      [] k \in {"s", "S"} -> "s"
      [] k \in {"d", "D"} -> "d"
      [] k \in {"q", "Q", " q"} -> "q"
      [] k \in {" ", "\n"} -> ""
      [] k = "E" -> "e"
      [] OTHER -> k

\* C13: move(key) never changes coords; it returns false exactly when the
\* trimmed, lower-cased key is 'q'; a key that is then none of w/a/s/d leaves the
\* direction alone; upper-case W/A/S/D act like the lower-case keys.
C13_MoveFrame ==
    [][op' = "move" =>
          /\ coords' = coords
          /\ ret' = (Normalized(key') # "q")
          /\ Normalized(key') \notin {"w", "a", "s", "d"} => direction' = direction
          /\ Normalized(key') \in {"w", "a", "s", "d"} =>
                direction' = IF KeyDirection[Normalized(key')] = Opposite[direction]
                             THEN direction
                             ELSE KeyDirection[Normalized(key')]]_vars

C13_Witness == op = "move" /\ key = "Q" /\ ret = FALSE /\ Len(coords) = 2

(***************************************************************************)
(* Properties of the key poll (specification SpecInput)                    *)
(***************************************************************************)
\* C12: when two or more keys arrived since the last poll, the next poll applies
\* the most recently pressed one and discards the earlier ones.
C12_LatestKeyOnly ==
    [][(/\ stdin_buf = <<>>
        /\ Len(tty_in) >= 2
        /\ Len(tty_in') + Len(stdin_buf') < Len(tty_in) + Len(stdin_buf)) =>
          (/\ key' = tty_in[Len(tty_in)]
           /\ tty_in' = <<>>
           /\ stdin_buf' = <<>>)]_vars

(***************************************************************************)
(* Properties of Point2D.squash (specification SpecSquash)                 *)
(***************************************************************************)
\* C14: for all integers x, y and bounds > 0 the result of squash is inside the
\* bounds and congruent to (x, y) modulo the bounds; squash is idempotent and
\* leaves a point inside the bounds unchanged.
C14_Squash ==
    /\ op = "squash" =>
          /\ 0 <= ret.x /\ ret.x < x_bounds
          /\ 0 <= ret.y /\ ret.y < y_bounds
          /\ \E q \in (-MaxCoord)..MaxCoord : coords[1].x = ret.x + q * x_bounds
          /\ \E q \in (-MaxCoord)..MaxCoord : coords[1].y = ret.y + q * y_bounds
          /\ (/\ 0 <= coords[1].x /\ coords[1].x < x_bounds
              /\ 0 <= coords[1].y /\ coords[1].y < y_bounds) => ret = coords[1]
    /\ op = "squash_again" => ret = coords[1]

C14_Witness ==
    /\ op = "squash_again"
    /\ tick_head.x < -x_bounds
    /\ tick_head.y >= 2 * y_bounds
    /\ x_bounds = 3 /\ y_bounds = 2

(***************************************************************************)
(* Properties of the game loop over several ticks (specification Spec)     *)
(***************************************************************************)
\* C15: at every render the apple's cell is not the board cell of any segment
\* of snake.coords[1:], so an apple is never hidden under the body.
C15_AppleNotUnderBody ==
    pc = "is_dead" => \A i \in 2..Len(coords) : Cell(coords[i]) # apple

\* C16: at every render len(snake.coords) = score + 1; score starts at 0 and
\* changes only by +1, in a step whose eat check (head = apple) succeeds.
C16_LengthIsScorePlusOne ==
    /\ score = 0
    /\ [](pc = "is_dead" => Len(coords) = score + 1)
    /\ [][\/ score' = score
          \/ /\ score' = score + 1
             /\ pc = "eat"
             /\ Point2D_eq(coords[1], apple)]_vars

C16_Witness ==
    pc = "is_dead" /\ score = 3 /\ Len(coords) = 4 /\ tick_score = 3

\* a step that calls grow(): the eat step when it eats, and update
GrowStep ==
    \/ pc = "update" /\ pc' = "while"
    \/ pc = "eat" /\ score' = score + 1

\* C17: the direction used by a grow() is never the reverse of the direction
\* used by the grow() before it, and on a board of at least 3 x 3 a snake of at
\* least 3 segments never moves its head onto the cell of its neck.
C17_NoReversal ==
    [][GrowStep =>
          /\ last_dir # None => direction # Opposite[last_dir]
          /\ last_dir' = direction
          /\ (x_bounds >= 3 /\ y_bounds >= 3 /\ Len(coords) >= 3) =>
                Cell(coords'[1]) # Cell(coords[2])]_vars

C17_Witness ==
    /\ pc = "while"
    /\ x_bounds >= 3 /\ y_bounds >= 3
    /\ Len(coords) >= 4
    /\ last_dir = "UP"
    /\ Cell(coords[1]).x # Cell(coords[3]).x
    /\ Cell(coords[1]).y # Cell(coords[3]).y

\* the positions of main after a break out of the loop by the death check
DeathPath ==
    /\ is_running
    /\ \/ pc \in {"exit_normal", "game_over"}
       \/ pc = "exited" /\ stdout # <<>> /\ stdout[1] = "GAME OVER"

\* C18: in a tick whose death check finds the head in the body the loop is left
\* in that tick with score, apple, direction and snake as they were at the
\* render; the report carries that score, and no step of the loop runs again.
C18_DeathTerminal ==
    /\ [][(pc = "is_dead" /\ \E i \in 2..Len(coords) : coords[i] = coords[1]) =>
              /\ pc' = "exit_normal"
              /\ UNCHANGED <<score, apple, direction, coords, is_running>>]_vars
    /\ [](DeathPath =>
              /\ score = tick_score
              /\ coords[1] = tick_head
              /\ Len(coords) = tick_len
              /\ ~ate
              /\ \E i \in 2..Len(coords) : coords[i] = coords[1])
    /\ [](DeathPath /\ pc = "exited" => stdout = <<"GAME OVER", tick_score>>)
    /\ [][(pc \in {"exit_normal", "game_over", "exited"}) =>
              /\ pc' \notin LoopPcs
              /\ UNCHANGED <<score, apple, direction, coords, is_running>>]_vars

C18_Witness ==
    /\ pc = "exited"
    /\ is_running
    /\ stdout = <<"GAME OVER", 3>>
    /\ score = 3

\* C19: the poll that reads a quit key goes on to update, which advances the
\* snake once in the unchanged direction; after that no render, death check,
\* eat step or poll runs, score and apple stay, and the loop is left whether
\* or not the snake is dead.
C19_QuitAfterTick ==
    /\ [][(pc = "get_key" /\ ~is_running') =>
              /\ pc' = "update"
              /\ UNCHANGED <<direction, coords, score, apple>>]_vars
    /\ [][(~is_running /\ pc = "update") =>
              /\ pc' = "while"
              /\ Len(coords') = Len(coords)
              /\ coords'[1] = Point2D_add(Cell(coords[1]), Direction[direction])
              /\ UNCHANGED <<direction, score, apple, is_running>>]_vars
    /\ [][(~is_running /\ pc # "update") =>
              /\ pc' \notin LoopPcs
              /\ UNCHANGED <<direction, coords, score, apple, is_running>>]_vars
    /\ [](~is_running /\ pc = "exited" /\ stdout # <<>> =>
              stdout = <<"GAME OVER", score>>)

C19_Witness ==
    /\ pc = "exited"
    /\ ~is_running
    /\ stdout = <<"GAME OVER", 2>>
    /\ Len(coords) = 3
    /\ coords[1] # tick_head
    /\ \A i \in 2..Len(coords) : coords[i] # coords[1]

====
